---- MODULE Spec2Model ----
(***************************************************************************)
(* A model of scripts/validate_templates.py: the TemplateValidator session *)
(* (its two finding lists), validate_template, _validate_script,           *)
(* _check_hardcoded_secrets, validate_all_templates and print_results.     *)
(*                                                                         *)
(* Python values are modelled as tagged records [t, v]: t is the Python    *)
(* type and v a sequence of strings (the characters of a str, the          *)
(* elements of a list, the keys of a dict, empty for the others).  A text  *)
(* is a sequence of one-character strings, so that the regular             *)
(* expressions and substring tests of the source are computed, not assumed.*)
(***************************************************************************)
EXTENDS Integers, Sequences, FiniteSets

VARIABLES
  errors,     \* self.errors
  warnings,   \* self.warnings
  templates_json, \* validate_all_templates: its argument, the envelope
  idx,        \* validate_all_templates: the record the for loop takes next
  all_valid,  \* validate_all_templates: the local `all_valid`
  pc,         \* where the driving caller is
  ret,        \* outcome of the last validate_template call
  e0,         \* Len(self.errors) when the last validate_template call began
  w0,         \* Len(self.warnings) when the last validate_template call began
  result,     \* value returned by validate_all_templates
  exit_code,  \* value returned by print_results
  script      \* text handed to _validate_script (script specification)

vars == << errors, warnings, templates_json, idx, all_valid, pc, ret, e0, w0,
           result, exit_code, script >>

---------------------------------------------------------------------------
(* Bounds of the model.                                                    *)

\* longest templates array handed to validate_all_templates
MaxRecords == 2

\* longest script text, in fragments, handed to _validate_script
MaxFrags == 5

---------------------------------------------------------------------------
(* Python values.                                                          *)

Str(cs)   == [t |-> "str",  v |-> cs]
List(xs)  == [t |-> "list", v |-> xs]
Dict(ks)  == [t |-> "dict", v |-> ks]
PyInt       == [t |-> "int",  v |-> << >>]
PyNone      == [t |-> "none", v |-> << >>]
\* a key the mapping does not hold
Absent    == [t |-> "absent", v |-> << >>]

isinstance(x, type) == x.t = type

Lower == {"a", "b", "c", "d", "e", "f", "g", "h", "i", "j", "k", "l", "m",
          "n", "o", "p", "q", "r", "s", "t", "u", "v", "w", "x", "y", "z"}
Upper == {"A", "B", "C", "D", "E", "F", "G", "H", "I", "J", "K", "L", "M",
          "N", "O", "P", "Q", "R", "S", "T", "U", "V", "W", "X", "Y", "Z"}
Digit == {"0", "1", "2", "3", "4", "5", "6", "7", "8", "9"}
Alnum == Upper \cup Lower \cup Digit
\* the characters str.strip() removes, among those the model's texts use
Whitespace == {" ", "\t", "\n", "\r"}
QUOTE == "\""

\* n copies of character c
Rep(c, n) == [k \in 1..n |-> c]

\* s[i..j] as Python slices do: cut at the end of s
Slice(s, i, j) == SubSeq(s, i, IF j > Len(s) THEN Len(s) ELSE j)

\* str.startswith
startswith(s, prefix) ==
  /\ Len(prefix) <= Len(s)
  /\ \A k \in 1..Len(prefix) : s[k] = prefix[k]

\* prefix occurs in s at position i
OccursAt(s, prefix, i) ==
  /\ i + Len(prefix) - 1 <= Len(s)
  /\ \A k \in 1..Len(prefix) : s[i + k - 1] = prefix[k]

\* `sub in s` for two str
contains(s, sub) == \E i \in 1..(Len(s) - Len(sub) + 1) : OccursAt(s, sub, i)

\* `not s.strip()`: nothing but whitespace
strip_is_empty(s) == \A k \in 1..Len(s) : s[k] \in Whitespace

GITHUB_PREFIX ==
  <<
    "g", "i", "t", "h", "u", "b", "-" >>

SHEBANG ==
  <<
    "#", "!", "/", "b", "i", "n", "/", "b", "a", "s", "h" >>

SET_E ==
  <<
    "s", "e", "t", " ", "-", "e" >>

GITHUB_TOKEN ==
  <<
    "G", "I", "T", "H", "U", "B", "_", "T", "O", "K", "E", "N" >>

NameNodeCi ==
  <<
    "n", "o", "d", "e", "-", "c", "i" >>

NameGithubCi ==
  <<
    "g", "i", "t", "h", "u", "b", "-", "c", "i" >>

NameBad ==
  <<
    "B", "a", "d", "_", "N", "a", "m", "e" >>

NameGithubBad ==
  <<
    "g", "i", "t", "h", "u", "b", "-", "C", "I" >>

NameUnknown ==
  <<
    "u", "n", "k", "n", "o", "w", "n" >>

TextX ==
  <<
    "x" >>

TextDoIt ==
  <<
    "d", "o", " ", "i", "t" >>

TextBlank ==
  <<
    " ", "\n", "\t" >>

ScriptClean ==
  <<
    "#", "!", "/", "b", "i", "n", "/", "b", "a", "s", "h", "\n", "s", "e",
    "t", " ", "-", "e", "\n", "e", "c", "h", "o", " ", "h", "i" >>

ScriptVars ==
  <<
    "e", "c", "h", "o", " ", "$", "H", "O", "M", "E", " ", "a", "n", "d",
    " ", "$", "P", "A", "T", "H" >>

ScriptTokenHead ==
  <<
    "#", "!", "/", "b", "i", "n", "/", "b", "a", "s", "h", "\n", "s", "e",
    "t", " ", "-", "e", "\n", "e", "x", "p", "o", "r", "t", " ", "T", "=" >>

PrefixGhp ==
  <<
    "g", "h", "p", "_" >>

PrefixGho ==
  <<
    "g", "h", "o", "_" >>

PrefixPat ==
  <<
    "g", "i", "t", "h", "u", "b", "_", "p", "a", "t", "_" >>

PrefixAkia ==
  <<
    "A", "K", "I", "A" >>

PrefixSk ==
  <<
    "s", "k", "-" >>

---------------------------------------------------------------------------
(* Findings.  A message f"{name}: {text} {arg} {vars}" is kept as its      *)
(* parts: the template name it is formatted with, the fixed text, the     *)
(* field or credential label, and the list of variables.                   *)

Msg(tn, text, arg, vs) == [tn |-> tn, text |-> text, arg |-> arg, vars |-> vs]

MSG_MISSING      == "Missing required field"
MSG_NAME         == "Invalid name format (use lowercase, numbers, hyphens only)"
MSG_REPOTYPES    == "repoTypes must be a non-empty list"
MSG_SETUP        == "setupScript must be a non-empty string"
MSG_MAINTENANCE  == "maintenanceScript must be a string"
MSG_SECRETS      == "requiredSecrets must be a list"
MSG_ENV          == "environmentVariables must be an object"
MSG_INSTRUCTIONS == "instructions must be a non-empty string"
MSG_GITHUB       == "GitHub templates must require GITHUB_TOKEN secret"
MSG_HARDCODED    == "Found hardcoded secret in script!"
MSG_SHEBANG      == "should start with #!/bin/bash shebang"
MSG_SET_E        == "should include 'set -e' for error handling"
MSG_UNQUOTED     == "has unquoted variables"
MSG_NO_TEMPLATES == "No templates found in templates array"

\* the message validate_all_templates appends for an empty array
NoTemplatesMsg == Msg(PyNone, MSG_NO_TEMPLATES, "", << >>)

required_fields ==
  << "name", "description", "repoTypes", "setupScript", "maintenanceScript",
     "requiredSecrets", "environmentVariables", "instructions" >>

Fields == {required_fields[k] : k \in 1..Len(required_fields)}

---------------------------------------------------------------------------
(* Regular expressions of the source.                                      *)

\* re.match(r'^[a-z0-9-]+$', s): `$` also matches before one final newline
NameChars == Lower \cup Digit \cup {"-"}
name_format_ok(s) ==
  LET body == IF Len(s) > 0 /\ s[Len(s)] = "\n"
              THEN SubSeq(s, 1, Len(s) - 1) ELSE s
  IN  /\ Len(body) >= 1
      /\ \A k \in 1..Len(body) : body[k] \in NameChars

\* the table of _check_hardcoded_secrets: a literal prefix, then exactly n
\* characters of a class
secret_patterns ==
  << [prefix |-> PrefixGhp,  cls |-> Alnum, n |-> 36,
      label |-> "GitHub Personal Access Token"],
     [prefix |-> PrefixGho,  cls |-> Alnum, n |-> 36,
      label |-> "GitHub OAuth Token"],
     [prefix |-> PrefixPat,  cls |-> Alnum \cup {"_"}, n |-> 82,
      label |-> "GitHub Fine-Grained Token"],
     [prefix |-> PrefixAkia, cls |-> Digit \cup Upper, n |-> 16,
      label |-> "AWS Access Key"],
     [prefix |-> PrefixSk,   cls |-> Alnum, n |-> 48,
      label |-> "OpenAI API Key"] >>

\* re.search(pattern, s) for a pattern of the table
search(p, s) ==
  \E i \in 1..(Len(s) - Len(p.prefix) - p.n + 1) :
    /\ OccursAt(s, p.prefix, i)
    /\ \A k \in 0..(p.n - 1) : s[i + Len(p.prefix) + k] \in p.cls

\* [A-Z_]
VarChars == Upper \cup {"_"}

\* length of the run of [A-Z_] that starts at position i of s
RunLen(s, i) ==
  LET stop == CHOOSE j \in i..(Len(s) + 1) :
                /\ j = Len(s) + 1 \/ s[j] \notin VarChars
                /\ \A m \in i..(j - 1) : s[m] \in VarChars
  IN  IF i > Len(s) THEN 0 ELSE stop - i

\* r'[^"](\$[A-Z_]+)[^"]' tried at position pos: the number of [A-Z_] the
\* group takes (greedy, giving back one character when the run is followed
\* by a quote or by the end of the text), 0 when there is no match at pos
UnquotedMatchLen(s, pos) ==
  IF pos + 1 <= Len(s) /\ s[pos] # QUOTE /\ s[pos + 1] = "$"
  THEN LET L == RunLen(s, pos + 2)
       IN  IF L >= 1 /\ pos + 2 + L <= Len(s) /\ s[pos + 2 + L] # QUOTE
           THEN L
           ELSE IF L >= 2 THEN L - 1 ELSE 0
  ELSE 0

\* a faulty variant of findall_unquoted: the quotes are looked at, not
\* consumed, so a
\* reference is taken whole, also at the very start or end of the text
FindAllLookaround(s, pos) ==
  LET starts == {i \in 1..Len(s) :
                   /\ s[i] = "$"
                   /\ RunLen(s, i + 1) >= 1
                   /\ ~ (/\ i > 1 /\ s[i - 1] = QUOTE
                         /\ i + RunLen(s, i + 1) + 1 <= Len(s)
                         /\ s[i + RunLen(s, i + 1) + 1] = QUOTE)}
      RECURSIVE Collect(_)
      Collect(i) ==
        IF i > Len(s) THEN << >>
        ELSE IF i \in starts
             THEN << SubSeq(s, i, i + RunLen(s, i + 1)) >> \o Collect(i + 1)
             ELSE Collect(i + 1)
  IN  Collect(pos)

\* re.findall(r'[^"](\$[A-Z_]+)[^"]', s), scanning from pos: the groups of
\* the leftmost matches, none overlapping the one before
RECURSIVE findall_unquoted(_, _)
findall_unquoted(s, pos) ==
  LET starts == {i \in pos..Len(s) : UnquotedMatchLen(s, i) > 0}
  IN  IF starts = {} THEN << >>
      ELSE LET i == CHOOSE m \in starts : \A o \in starts : m <= o
               k == UnquotedMatchLen(s, i)
           IN  << SubSeq(s, i + 1, i + 1 + k) >>
                 \o findall_unquoted(s, i + k + 3)

---------------------------------------------------------------------------
(* _validate_script (lines 87-103).  Returns the new warnings and whether  *)
(* the call raised: a script that is no str has no startswith (line 90).   *)

_validate_script(warns, s, template_name, script_type) ==
  IF ~ isinstance(s, "str")
  THEN [warnings |-> warns, raised |-> TRUE]
  ELSE
    LET w1 == IF script_type = "setupScript" /\ ~ startswith(s.v, SHEBANG)
              THEN Append(warns, Msg(template_name, MSG_SHEBANG, script_type, << >>))
              ELSE warns
        w2 == IF ~ contains(s.v, SET_E)
              THEN Append(w1, Msg(template_name, MSG_SET_E, script_type, << >>))
              ELSE w1
        unquoted_vars == findall_unquoted(s.v, 1)
        w3 == IF unquoted_vars # << >>
              THEN Append(w2, Msg(template_name, MSG_UNQUOTED, script_type,
                                  Slice(unquoted_vars, 1, 3)))
              ELSE w2
    IN  [warnings |-> w3, raised |-> FALSE]

(* _check_hardcoded_secrets (lines 105-119): one Error per pattern of the  *)
(* table found in the script, in the table's order.                        *)

RECURSIVE SecretErrors(_, _, _)
SecretErrors(s, template_name, k) ==
  IF k > Len(secret_patterns) THEN << >>
  ELSE (IF search(secret_patterns[k], s)
        THEN << Msg(template_name, MSG_HARDCODED, secret_patterns[k].label, << >>) >>
        ELSE << >>)
       \o SecretErrors(s, template_name, k + 1)

_check_hardcoded_secrets(errs, s, template_name) ==
  errs \o SecretErrors(s, template_name, 1)

---------------------------------------------------------------------------
(* validate_template (lines 26-85).  A template is a mapping from the      *)
(* field names to values, Absent for a key it does not hold.  The result   *)
(* is the two lists after the call and its outcome: "True" or "False"      *)
(* returned, or "raised" when an exception leaves the method.              *)

\* lines 37-40: the first required field the template lacks, 0 for none
FirstMissing(template) ==
  IF \E k \in 1..Len(required_fields) : template[required_fields[k]] = Absent
  THEN CHOOSE k \in 1..Len(required_fields) :
         /\ template[required_fields[k]] = Absent
         /\ \A j \in 1..(k - 1) : template[required_fields[j]] # Absent
  ELSE 0

\* append msg to errs when cond holds
AppendIf(errs, cond, msg) == IF cond THEN Append(errs, msg) ELSE errs

\* `'GITHUB_TOKEN' in x`: an element of a list, a key of a dict, a
\* substring of a str; any other value is not iterable
SupportsIn(x) == x.t \in {"list", "dict", "str"}
token_in(x) ==
  IF isinstance(x, "str") THEN contains(x.v, GITHUB_TOKEN)
  ELSE \E k \in 1..Len(x.v) : x.v[k] = "GITHUB_TOKEN"

\* line 85
ReturnValue(errs) == IF Len(errs) = 0 THEN "True" ELSE "False"

validate_template(errs, warns, template, name) ==
  LET missing == FirstMissing(template)
      nm      == template["name"]
      setup   == template["setupScript"]
      secrets == template["requiredSecrets"]
      instr   == template["instructions"]
      \* lines 43-66
      a1 == AppendIf(errs, ~ name_format_ok(nm.v), Msg(name, MSG_NAME, "", << >>))
      a2 == AppendIf(a1, \/ ~ isinstance(template["repoTypes"], "list")
                         \/ Len(template["repoTypes"].v) = 0,
                     Msg(name, MSG_REPOTYPES, "", << >>))
      a3 == AppendIf(a2, \/ ~ isinstance(setup, "str")
                         \/ strip_is_empty(setup.v),
                     Msg(name, MSG_SETUP, "", << >>))
      a4 == AppendIf(a3, ~ isinstance(template["maintenanceScript"], "str"),
                     Msg(name, MSG_MAINTENANCE, "", << >>))
      a5 == AppendIf(a4, ~ isinstance(secrets, "list"),
                     Msg(name, MSG_SECRETS, "", << >>))
      a6 == AppendIf(a5, ~ isinstance(template["environmentVariables"], "dict"),
                     Msg(name, MSG_ENV, "", << >>))
      \* lines 69-73
      vs == _validate_script(warns, setup, name, "setupScript")
      a7 == _check_hardcoded_secrets(a6, setup.v, name)
      \* lines 76-77
      a8 == AppendIf(a7, \/ ~ isinstance(instr, "str")
                         \/ strip_is_empty(instr.v),
                     Msg(name, MSG_INSTRUCTIONS, "", << >>))
      \* lines 80-83
      github == startswith(nm.v, GITHUB_PREFIX)
      a9 == AppendIf(a8, github /\ ~ token_in(secrets),
                     Msg(name, MSG_GITHUB, "", << >>))
  IN  IF missing # 0
      THEN [errors   |-> Append(errs, Msg(name, MSG_MISSING,
                                          required_fields[missing], << >>)),
            warnings |-> warns, ret |-> "False"]
      ELSE IF ~ isinstance(nm, "str")
      \* line 43: re.match on a value that is no str is a TypeError
      THEN [errors |-> errs, warnings |-> warns, ret |-> "raised"]
      ELSE IF vs.raised
      \* line 70: the script has no startswith, an AttributeError
      THEN [errors |-> a6, warnings |-> warns, ret |-> "raised"]
      ELSE IF github /\ ~ SupportsIn(secrets)
      \* line 81: `in` on a value that is not iterable is a TypeError
      THEN [errors |-> a8, warnings |-> vs.warnings, ret |-> "raised"]
      ELSE [errors |-> a9, warnings |-> vs.warnings, ret |-> ReturnValue(a9)]

\* line 133: template.get('name', 'unknown')
template_name(template) ==
  IF template["name"] = Absent THEN Str(NameUnknown) ELSE template["name"]

---------------------------------------------------------------------------
(* validate_all_templates (lines 121-137) and print_results (139-157).     *)

\* line 123: templates_json.get('templates', []); an envelope is
\* [has, templates], has = FALSE for one without the key
templates_get(tj) == IF tj.has THEN tj.templates ELSE << >>

\* a faulty variant of EmptyOutcome: an empty array passes in silence
EmptyNoError(errs) == [errors |-> errs, result |-> TRUE]

\* lines 125-127: the Error list and the value returned for an empty array
EmptyOutcome(errs) == [errors |-> Append(errs, NoTemplatesMsg), result |-> FALSE]

\* lines 134-135: all_valid after one more validate_template outcome
AllValidAfter(av, r) == IF r = "True" THEN av ELSE FALSE

\* a faulty variant of print_results: Warnings fail the run too
ExitCodeCountsWarnings(errs, warns) == IF Len(errs) + Len(warns) > 0 THEN 1 ELSE 0

\* lines 149-157: the exit code
print_results(errs, warns) == IF Len(errs) > 0 THEN 1 ELSE 0

---------------------------------------------------------------------------
(* The records and envelopes the model validates.                          *)

\* secret-shaped tokens, and one a character short of the shape
TokenGhp    == PrefixGhp  \o Rep("a", 36)
TokenGhp35  == PrefixGhp  \o Rep("a", 35) \o << "-" >>
TokenGho    == PrefixGho  \o Rep("B", 36)
TokenPat    == PrefixPat  \o Rep("_", 82)
TokenAkia   == PrefixAkia \o Rep("7", 16)
TokenSk     == PrefixSk   \o Rep("z", 48)

ScriptGhp   == ScriptTokenHead \o TokenGhp
ScriptGhp35 == ScriptTokenHead \o TokenGhp35
ScriptAll   == TokenSk \o << "\n" >> \o TokenAkia \o << "\n" >> \o TokenPat
                 \o << "\n" >> \o TokenGho \o << "\n" >> \o TokenGhp

\* a record that meets every rule
WellFormed ==
  [name                 |-> Str(NameNodeCi),
   description          |-> Str(TextX),
   repoTypes            |-> List(<< "node" >>),
   setupScript          |-> Str(ScriptClean),
   maintenanceScript    |-> Str(<< >>),
   requiredSecrets      |-> List(<< >>),
   environmentVariables |-> Dict(<< >>),
   instructions         |-> Str(TextDoIt)]

\* the same under a github- name: it breaks the GitHub rule and no other
GithubCi == [WellFormed EXCEPT !["name"] = Str(NameGithubCi)]

\* what load_templates_from_ts yields (line 195): a name and nothing else
NameOnly == [f \in Fields |-> IF f = "name" THEN Str(NameNodeCi) ELSE Absent]

\* a record with a hardcoded token in its script and a number for a name
LeakNumberName ==
  [WellFormed EXCEPT !["name"] = PyInt, !["setupScript"] = Str(ScriptGhp)]

\* the values that replace a field of WellFormed in the records of the model
FieldValues(f) ==
  CASE f = "name" ->
         {Absent, PyInt, Str(NameBad), Str(NameGithubBad)}
    [] f = "description" -> {}
    [] f = "repoTypes" -> {List(<< >>)}
    [] f = "setupScript" ->
         {PyInt, Str(ScriptVars), Str(ScriptGhp), Str(ScriptGhp35),
          Str(ScriptAll)}
    [] f = "maintenanceScript" -> {PyNone}
    [] f = "requiredSecrets" -> {PyInt}
    [] f = "environmentVariables" -> {List(<< >>)}
    [] f = "instructions" -> {Absent, PyInt, Str(TextBlank)}

\* the values that replace a field of GithubCi
GithubFieldValues(f) ==
  CASE f = "setupScript" -> {PyInt, Str(ScriptGhp)}
    [] f = "requiredSecrets" ->
         {Absent, PyInt, List(<< "GITHUB_TOKEN" >>), Str(GITHUB_TOKEN)}
    [] OTHER -> {}

\* the records: the four above, and each of the first two with one field
\* replaced
Records ==
  {WellFormed, GithubCi, NameOnly, LeakNumberName}
    \cup UNION {{[WellFormed EXCEPT ![f] = x] : x \in FieldValues(f)} : f \in Fields}
    \cup UNION {{[GithubCi EXCEPT ![f] = x] : x \in GithubFieldValues(f)} : f \in Fields}

\* the sequences over S of length at most n
RECURSIVE SeqsUpTo(_, _)
SeqsUpTo(S, n) ==
  IF n = 0 THEN {<< >>}
  ELSE LET shorter == SeqsUpTo(S, n - 1)
       IN  shorter \cup {Append(q, x) : q \in shorter, x \in S}

\* the envelopes: one without the templates key, and one per array
Envelopes ==
  {[has |-> FALSE, templates |-> << >>]}
    \cup {[has |-> TRUE, templates |-> q] : q \in SeqsUpTo(Records, MaxRecords)}

\* the fragments script texts are built from
Frags == { << QUOTE >>, << " " >>, << "$" >>, << "A" >>, << "B" >>,
           << " ", "$", "A", " " >> }

\* the texts of at most n fragments
RECURSIVE Texts(_)
Texts(n) ==
  IF n = 0 THEN {<< >>}
  ELSE LET shorter == Texts(n - 1)
       IN  shorter \cup {q \o f : q \in shorter, f \in Frags}

---------------------------------------------------------------------------
(* The session: constructed, then validate_all_templates, which calls      *)
(* validate_template once per record, then print_results.                  *)

templates == templates_get(templates_json)

\* __init__ (lines 22-24); nothing has been called
Init ==
  /\ errors = << >>
  /\ warnings = << >>
  /\ templates_json = [has |-> FALSE, templates |-> << >>]
  /\ idx = 0
  /\ all_valid = TRUE
  /\ pc = "idle"
  /\ ret = "none"
  /\ e0 = 0
  /\ w0 = 0
  /\ result = "none"
  /\ exit_code = -1
  /\ script = << >>

\* validate_all_templates is called (lines 121-131): an empty array ends
\* the call, any other enters the loop
ValidateAllTemplates ==
  /\ pc = "idle"
  /\ \E tj \in Envelopes :
       /\ templates_json' = tj
       /\ IF Len(templates_get(tj)) = 0
          THEN /\ errors' = EmptyOutcome(errors).errors
               /\ result' = IF EmptyOutcome(errors).result THEN "True" ELSE "False"
               /\ pc' = "returned"
               /\ UNCHANGED << idx, all_valid >>
          ELSE /\ all_valid' = TRUE
               /\ idx' = 1
               /\ pc' = "loop"
               /\ UNCHANGED << errors, result >>
  /\ UNCHANGED << warnings, ret, e0, w0, exit_code, script >>

\* one turn of the loop (lines 132-135): validate_template on the next
\* record; an exception it raises leaves validate_all_templates too
ValidateTemplate ==
  /\ pc = "loop"
  /\ idx <= Len(templates)
  /\ LET template == templates[idx]
         r == validate_template(errors, warnings, template, template_name(template))
     IN  /\ errors' = r.errors
         /\ warnings' = r.warnings
         /\ ret' = r.ret
         /\ e0' = Len(errors)
         /\ w0' = Len(warnings)
         /\ idx' = idx + 1
         /\ IF r.ret = "raised"
            THEN pc' = "raised" /\ UNCHANGED all_valid
            ELSE pc' = "loop" /\ all_valid' = AllValidAfter(all_valid, r.ret)
  /\ UNCHANGED << templates_json, result, exit_code, script >>

\* the loop is over (line 137)
ReturnAllValid ==
  /\ pc = "loop"
  /\ idx > Len(templates)
  /\ result' = IF all_valid THEN "True" ELSE "False"
  /\ pc' = "returned"
  /\ UNCHANGED << errors, warnings, templates_json, idx, all_valid, ret, e0, w0,
                  exit_code, script >>

\* print_results (lines 139-157)
PrintResults ==
  /\ pc = "returned"
  /\ exit_code' = print_results(errors, warnings)
  /\ pc' = "printed"
  /\ UNCHANGED << errors, warnings, templates_json, idx, all_valid, ret, e0, w0,
                  result, script >>

Next == ValidateAllTemplates \/ ValidateTemplate \/ ReturnAllValid \/ PrintResults

Spec == Init /\ [][Next]_vars

---------------------------------------------------------------------------
(* What the properties below speak of.                                     *)

\* a validate_template call has ended (returned or raised)
Called == ret # "none"

\* the record the last validate_template call was given
LastTemplate == templates[idx - 1]

\* the findings the last validate_template call appended
NewErrors == SubSeq(errors, e0 + 1, Len(errors))
NewWarnings == SubSeq(warnings, w0 + 1, Len(warnings))

WithText(msgs, text) == SelectSeq(msgs, LAMBDA m : m.text = text)

MissingFields(t) == {f \in Fields : t[f] = Absent}

\* the name is a str that starts with "github-" and requiredSecrets does
\* not hold "GITHUB_TOKEN"
GithubWithoutToken(t) ==
  /\ isinstance(t["name"], "str")
  /\ startswith(t["name"].v, GITHUB_PREFIX)
  /\ ~ (SupportsIn(t["requiredSecrets"]) /\ token_in(t["requiredSecrets"]))

\* the labels of the registered patterns found in text s, in registry order
MatchingLabels(s) ==
  LET hits == SelectSeq(secret_patterns, LAMBDA p : search(p, s))
  IN  [k \in 1..Len(hits) |-> hits[k].label]

\* a record that meets every rule of the data model
IsWellFormed(t) ==
  /\ MissingFields(t) = {}
  /\ \A f \in {"name", "setupScript", "maintenanceScript", "instructions"} :
       isinstance(t[f], "str")
  /\ name_format_ok(t["name"].v)
  /\ ~ startswith(t["name"].v, GITHUB_PREFIX)
  /\ isinstance(t["repoTypes"], "list") /\ Len(t["repoTypes"].v) > 0
  /\ ~ strip_is_empty(t["setupScript"].v)
  /\ ~ strip_is_empty(t["instructions"].v)
  /\ isinstance(t["requiredSecrets"], "list")
  /\ isinstance(t["environmentVariables"], "dict")
  /\ MatchingLabels(t["setupScript"].v) = << >>

\* the outcome of validate_template on t alone, in a fresh session
Alone(t) == validate_template(<< >>, << >>, t, template_name(t))

\* the findings of the records of ts, each validated alone, one after another
RECURSIVE AloneErrors(_)
AloneErrors(ts) ==
  IF ts = << >> THEN << >> ELSE Alone(Head(ts)).errors \o AloneErrors(Tail(ts))

RECURSIVE AloneWarnings(_)
AloneWarnings(ts) ==
  IF ts = << >> THEN << >> ELSE Alone(Head(ts)).warnings \o AloneWarnings(Tail(ts))

---------------------------------------------------------------------------
(* Properties of the session (specification Spec).                         *)

\* C1: a validate_template call that returns, returns True iff it appended
\* no Error to self.errors, whatever the session held before the call.
C1_TrueIffNoNewError ==
  ret \in {"True", "False"} => (ret = "True" <=> Len(errors) = e0)

\* C2: for a record that lacks k >= 1 required fields, validate_template
\* appends exactly k Errors, one per missing field, and nothing else (no
\* other Error, no Warning).
C2_OneErrorPerMissingField ==
  (Called /\ MissingFields(LastTemplate) # {}) =>
    /\ Len(NewErrors) = Cardinality(MissingFields(LastTemplate))
    /\ \A k \in 1..Len(NewErrors) : NewErrors[k].text = MSG_MISSING
    /\ {NewErrors[k].arg : k \in 1..Len(NewErrors)} = MissingFields(LastTemplate)
    /\ NewWarnings = << >>

\* C3: for a record whose name starts with "github-" and whose
\* requiredSecrets does not hold "GITHUB_TOKEN", validate_template appends
\* exactly one GitHub-rule Error, whatever the other fields are.
C3_GithubRuleAlways ==
  (Called /\ GithubWithoutToken(LastTemplate)) =>
    Len(WithText(NewErrors, MSG_GITHUB)) = 1

\* C4: for a record with every required field present, validate_template
\* returns (it never raises), whatever the types of the values.
C4_NeverRaises ==
  (Called /\ MissingFields(LastTemplate) = {}) => ret # "raised"

\* C5: once validate_all_templates has returned in a fresh session, its
\* value is True iff self.errors is empty, and print_results returns 0 in
\* exactly that case and 1 otherwise; the Warnings play no part.
C5_PassIffNoErrors ==
  /\ pc \in {"returned", "printed"} => (result = "True" <=> errors = << >>)
  /\ pc \in {"returned", "printed"} => result \in {"True", "False"}
  /\ pc = "printed" => exit_code = (IF errors = << >> THEN 0 ELSE 1)

\* C5 witness: a run of two records that passes with exit code 0 although
\* Warnings were collected.
C5_Witness ==
  /\ pc = "printed"
  /\ Len(templates) >= 2
  /\ exit_code = 0
  /\ result = "True"
  /\ warnings # << >>

\* C6: for a record that passes the presence check and whose setupScript is
\* a text, validate_template appends one hardcoded-secret Error per
\* registered pattern found in the text, in registry order, labelled with
\* the credential type, and no other, whatever the other fields are.
C6_OneErrorPerMatchingPattern ==
  (/\ Called
   /\ MissingFields(LastTemplate) = {}
   /\ isinstance(LastTemplate["setupScript"], "str")) =>
    LET found == WithText(NewErrors, MSG_HARDCODED)
    IN  [k \in 1..Len(found) |-> found[k].arg]
          = MatchingLabels(LastTemplate["setupScript"].v)

\* C7: validate_all_templates on a fresh session with an empty templates
\* array, or with no templates key, returns False and leaves exactly the
\* one top-level Error and no Warning.
C7_EmptyCollection ==
  (pc \in {"returned", "printed"} /\ Len(templates) = 0) =>
    /\ result = "False"
    /\ errors = << NoTemplatesMsg >>
    /\ warnings = << >>

\* C7 witness: the call has returned for an envelope without the key.
C7_Witness ==
  /\ pc = "returned"
  /\ ~ templates_json.has
  /\ result = "False"
  /\ Len(errors) = 1

\* C8: for a well-formed record, validate_template returns True and appends
\* no Error, wherever the record stands in the array.
C8_WellFormedPasses ==
  (Called /\ IsWellFormed(LastTemplate)) =>
    /\ ret = "True"
    /\ NewErrors = << >>

\* C9: when validate_all_templates has ended on a non-empty array, every
\* record has been checked: the two lists are the findings of each record
\* validated alone in a fresh session, one after another in input order.
C9_EveryRecordChecked ==
  (pc \in {"returned", "raised"} /\ Len(templates) > 0) =>
    /\ errors = AloneErrors(templates)
    /\ warnings = AloneWarnings(templates)

---------------------------------------------------------------------------
(* _validate_script on its own: a fresh session and any text.              *)

InitScript ==
  /\ errors = << >>
  /\ warnings = << >>
  /\ templates_json = [has |-> FALSE, templates |-> << >>]
  /\ idx = 0
  /\ all_valid = TRUE
  /\ pc = "script"
  /\ ret = "none"
  /\ e0 = 0
  /\ w0 = 0
  /\ result = "none"
  /\ exit_code = -1
  /\ script \in Texts(MaxFrags)

ValidateScript ==
  /\ pc = "script"
  /\ warnings' = _validate_script(warnings, Str(script), Str(NameNodeCi),
                                  "setupScript").warnings
  /\ pc' = "checked"
  /\ UNCHANGED << errors, templates_json, idx, all_valid, ret, e0, w0, result,
                  exit_code, script >>

NextScript == ValidateScript

SpecScript == InitScript /\ [][NextScript]_vars

---------------------------------------------------------------------------
(* Properties of _validate_script (specification SpecScript).              *)

\* the unquoted-variables Warnings of the session
UnquotedWarnings == WithText(warnings, MSG_UNQUOTED)

\* the references $NAME of text s, NAME a whole run of [A-Z_], that do not
\* stand between a quote right before and a quote right after, in order
UnenclosedReferences(s) ==
  LET IsRef(i) == /\ s[i] = "$"
                  /\ i < Len(s) /\ s[i + 1] \in VarChars
      Last(i) == CHOOSE j \in (i + 1)..Len(s) :
                   /\ \A m \in (i + 1)..j : s[m] \in VarChars
                   /\ j = Len(s) \/ s[j + 1] \notin VarChars
      Enclosed(i) == /\ i > 1 /\ s[i - 1] = QUOTE
                     /\ Last(i) < Len(s) /\ s[Last(i) + 1] = QUOTE
      at == {i \in 1..Len(s) : IsRef(i) /\ ~ Enclosed(i)}
      RECURSIVE InOrder(_)
      InOrder(i) ==
        IF i > Len(s) THEN << >>
        ELSE (IF i \in at THEN << SubSeq(s, i, Last(i)) >> ELSE << >>)
               \o InOrder(i + 1)
  IN  InOrder(1)

\* the first n distinct entries of sequence q
FirstDistinct(q, n) ==
  LET firsts == SelectSeq([k \in 1..Len(q) |-> <<k, q[k]>>],
                          LAMBDA e : \A j \in 1..(e[1] - 1) : q[j] # e[2])
  IN  [k \in 1..(IF Len(firsts) < n THEN Len(firsts) ELSE n) |-> firsts[k][2]]

\* r'[^"](\$[A-Z_]+)[^"]' read as a shape: at position i a character that
\* is no quote, `$`, k >= 1 characters of [A-Z_], a character that is no quote
ShapeAt(s, i, k) ==
  /\ k >= 1
  /\ i + 2 + k <= Len(s)
  /\ s[i] # QUOTE
  /\ s[i + 1] = "$"
  /\ \A m \in (i + 2)..(i + 1 + k) : s[m] \in VarChars
  /\ s[i + 2 + k] # QUOTE

HasUnquotedShape(s) == \E i \in 1..Len(s) : \E k \in 1..Len(s) : ShapeAt(s, i, k)

\* g is `$` and the letters of some occurrence of the shape in s
IsShapeGroup(s, g) ==
  \E i \in 1..Len(s) : \E k \in 1..Len(s) :
    ShapeAt(s, i, k) /\ g = SubSeq(s, i + 1, i + 1 + k)

\* the group of the leftmost occurrence of the shape, taken greedily
LeftmostGroup(s) ==
  LET i0 == CHOOSE i \in 1..Len(s) :
              /\ \E k \in 1..Len(s) : ShapeAt(s, i, k)
              /\ \A j \in 1..(i - 1) : \A k \in 1..Len(s) : ~ ShapeAt(s, j, k)
      k0 == CHOOSE k \in 1..Len(s) :
              /\ ShapeAt(s, i0, k)
              /\ \A m \in (k + 1)..Len(s) : ~ ShapeAt(s, i0, m)
  IN  SubSeq(s, i0 + 1, i0 + 1 + k0)

\* C10 as claimed: _validate_script flags a reference $NAME iff it does not
\* stand between two quotes (also at the very start or end of the text, and
\* when quoted on one side only), and emits one Warning that lists the first
\* 3 distinct flagged references when there is one, none otherwise.
C10_FlagsUnenclosedReferences ==
  pc = "checked" =>
    /\ Len(UnquotedWarnings) = (IF UnenclosedReferences(script) = << >> THEN 0 ELSE 1)
    /\ \A k \in 1..Len(UnquotedWarnings) :
         UnquotedWarnings[k].vars = FirstDistinct(UnenclosedReferences(script), 3)

\* C10 as amended: _validate_script emits one unquoted-variables Warning
\* iff the text holds, somewhere, a character that is no quote, then `$`,
\* then one or more of [A-Z_], then a character that is no quote (it may be
\* the last letter of the name); the Warning lists between 1 and 3 entries,
\* each of them `$` and the letters of such an occurrence, the first one
\* that of the leftmost occurrence; no such Warning otherwise.
C10_WarnsIffUnquotedShape ==
  pc = "checked" =>
    /\ Len(UnquotedWarnings) = (IF HasUnquotedShape(script) THEN 1 ELSE 0)
    /\ \A k \in 1..Len(UnquotedWarnings) :
         LET vs == UnquotedWarnings[k].vars
         IN  /\ Len(vs) \in 1..3
             /\ \A j \in 1..Len(vs) : IsShapeGroup(script, vs[j])
             /\ vs[1] = LeftmostGroup(script)

\* C10 witness: a text that begins with a reference, which is not flagged,
\* and whose Warning lists three entries, the same variable more than once.
C10_Witness ==
  /\ pc = "checked"
  /\ Len(script) >= 2 /\ script[1] = "$" /\ script[2] \in VarChars
  /\ Len(UnquotedWarnings) = 1
  /\ Len(UnquotedWarnings[1].vars) = 3
  /\ UnquotedWarnings[1].vars[1] = UnquotedWarnings[1].vars[2]
  /\ \A j \in 1..3 : Len(UnquotedWarnings[1].vars[j]) = 2

====
